---- MODULE Spec2Model ----
(***************************************************************************)
(* JwtEcdsaVerifyKeyManager (cc/jwt/internal/jwt_ecdsa_verify_key_manager) *)
(* called by several threads that share one manager.  The manager wraps a  *)
(* raw key manager; the raw key manager is a stateless double whose        *)
(* verdicts are fixed when the manager is constructed and which records    *)
(* the GetPrimitive calls it receives.                                     *)
(***************************************************************************)
EXTENDS Integers, Sequences, FiniteSets, TLC

\* Largest value the algorithm field of a key proto takes in the model;
\* the values above ES512 are the unrecognized ones of the open enum.
MaxAlgorithm == 4

Threads == {"t1", "t2"}

KeyBytes == {"K1", "K2"}

\* case labels of the switch in AlgorithmName
ES_UNKNOWN == 0
ES256 == 1
ES384 == 2
ES512 == 3

JwtEcdsaAlgorithm == 0..MaxAlgorithm

\* JwtEcdsaPublicKey: the declared algorithm and the serialized point
JwtEcdsaPublicKey == [algorithm : JwtEcdsaAlgorithm, key_bytes : KeyBytes]

----------------------------------------------------------------------------
\* util::Status and util::StatusOr<T>.  A StatusOr holds a status and an
\* optional value, written as a sequence of length 0 or 1.

Status(code, message) == [code |-> code, message |-> message]

OkStatus == Status("OK", "")

IsOk(status) == status.code = "OK"

StatusOrValue(v) == [status |-> OkStatus, value |-> <<v>>]

StatusOrError(status) == [status |-> status, value |-> <<>>]

ValueOrDie(status_or) == status_or.value[1]

----------------------------------------------------------------------------
\* The raw key manager.  What it answers for a key is fixed at construction.

RawVerdicts ==
  { OkStatus,
    Status("INVALID_ARGUMENT", "invalid curve point"),
    Status("INTERNAL", "raw key manager failure") }

RawKeyManagers == [ValidateKey : [KeyBytes -> RawVerdicts],
                   GetPrimitive : [KeyBytes -> RawVerdicts]]

RawVersion == 0

RawKeyType == "type.googleapis.com/google.crypto.tink.JwtEcdsaPublicKey"

RawKeyMaterialType == "ASYMMETRIC_PUBLIC"

\* the PublicKeyVerify the raw key manager builds from a key
PublicKeyVerify(key) == [public_key |-> key]

RawValidateKey(raw, key) == raw.ValidateKey[key.key_bytes]

RawGetPrimitive(raw, key) ==
  IF IsOk(raw.GetPrimitive[key.key_bytes])
    THEN StatusOrValue(PublicKeyVerify(key))
    ELSE StatusOrError(raw.GetPrimitive[key.key_bytes])

----------------------------------------------------------------------------
\* JwtEcdsaVerifyKeyManager::AlgorithmName

AlgorithmNameSwapped(algorithm) ==
  CASE algorithm = ES256 -> StatusOrValue("ES256")
    [] algorithm = ES384 -> StatusOrValue("ES256")
    [] algorithm = ES512 -> StatusOrValue("ES512")
    [] OTHER -> StatusOrError(Status("INVALID_ARGUMENT", "Unknown algorithm"))

AlgorithmNameNoDefault(algorithm) ==
  CASE algorithm = ES256 -> StatusOrValue("ES256")
    [] algorithm = ES384 -> StatusOrValue("ES384")
    [] algorithm = ES512 -> StatusOrValue("ES512")
    [] algorithm = ES_UNKNOWN ->
         StatusOrError(Status("INVALID_ARGUMENT", "Unknown algorithm"))
    [] OTHER -> StatusOrValue("")

AlgorithmNameOtherMessage(algorithm) ==
  CASE algorithm = ES256 -> StatusOrValue("ES256")
    [] algorithm = ES384 -> StatusOrValue("ES384")
    [] algorithm = ES512 -> StatusOrValue("ES512")
    [] OTHER -> StatusOrError(Status("INVALID_ARGUMENT", "Unsupported algorithm"))

AlgorithmName(algorithm) ==
  CASE algorithm = ES256 -> StatusOrValue("ES256")
    [] algorithm = ES384 -> StatusOrValue("ES384")
    [] algorithm = ES512 -> StatusOrValue("ES512")
    [] OTHER -> StatusOrError(Status("INVALID_ARGUMENT", "Unknown algorithm"))

\* JwtPublicKeyVerifyImpl: a raw verifier bound to an algorithm name
JwtPublicKeyVerifyImpl(verify, algorithm_name) ==
  [verify |-> verify, algorithm_name |-> algorithm_name]

----------------------------------------------------------------------------
VARIABLES
  raw_key_manager_,     \* the manager's only member
  pc,                   \* pc[t]: where thread t is in its call
  op,                   \* op[t]: the operation of t's current or last call
  arg,                  \* arg[t]: the key passed to that call
  name_or,              \* Create's local name_or
  result,               \* Create's local result
  ret,                  \* the value the call returned
  get_primitive_calls,  \* GetPrimitive calls the raw manager saw in the call
  prev                  \* result of t's previous ValidateKey of the same key

vars == <<raw_key_manager_, pc, op, arg, name_or, result, ret,
          get_primitive_calls, prev>>

NoKey == [algorithm |-> -1, key_bytes |-> ""]

None == <<>>

Callable(t) == pc[t] \in {"idle", "done"}

Init ==
  /\ raw_key_manager_ \in RawKeyManagers
  /\ pc = [t \in Threads |-> "idle"]
  /\ op = [t \in Threads |-> "none"]
  /\ arg = [t \in Threads |-> NoKey]
  /\ name_or = [t \in Threads |-> None]
  /\ result = [t \in Threads |-> None]
  /\ ret = [t \in Threads |-> None]
  /\ get_primitive_calls = [t \in Threads |-> 0]
  /\ prev = [t \in Threads |-> None]

----------------------------------------------------------------------------
\* PublicKeyVerifyFactory::Create, one action per step of the function.

\* lines 32-33: entry and the call of AlgorithmName
CreateAlgorithmName(t, key) ==
  /\ Callable(t)
  /\ pc' = [pc EXCEPT ![t] = "Create_34"]
  /\ op' = [op EXCEPT ![t] = "Create"]
  /\ arg' = [arg EXCEPT ![t] = key]
  /\ name_or' = [name_or EXCEPT ![t] = AlgorithmName(key.algorithm)]
  /\ result' = [result EXCEPT ![t] = None]
  /\ ret' = [ret EXCEPT ![t] = None]
  /\ get_primitive_calls' = [get_primitive_calls EXCEPT ![t] = 0]
  /\ prev' = [prev EXCEPT ![t] = None]
  /\ UNCHANGED raw_key_manager_

\* lines 34-36: the name did not resolve
CreateNameError(t) ==
  /\ pc[t] = "Create_34"
  /\ ~IsOk(name_or[t].status)
  /\ ret' = [ret EXCEPT ![t] = StatusOrError(name_or[t].status)]
  /\ pc' = [pc EXCEPT ![t] = "done"]
  /\ UNCHANGED <<raw_key_manager_, op, arg, name_or, result,
                 get_primitive_calls, prev>>

\* a GetPrimitive issued before the name is looked at
CreateGetPrimitiveEarly(t) ==
  /\ pc[t] = "Create_34"
  /\ get_primitive_calls' =
       [get_primitive_calls EXCEPT ![t] = get_primitive_calls[t] + 1]
  /\ result' = [result EXCEPT ![t] = RawGetPrimitive(raw_key_manager_, arg[t])]
  /\ IF IsOk(name_or[t].status)
       THEN /\ pc' = [pc EXCEPT ![t] = "Create_39"]
            /\ ret' = ret
       ELSE /\ pc' = [pc EXCEPT ![t] = "done"]
            /\ ret' = [ret EXCEPT ![t] = StatusOrError(name_or[t].status)]
  /\ UNCHANGED <<raw_key_manager_, op, arg, name_or, prev>>

\* a GetPrimitive on a key kept in a member that all callers write
CreateGetPrimitiveShared(t) ==
  /\ pc[t] = "Create_34"
  /\ IsOk(name_or[t].status)
  /\ \E u \in Threads :
       /\ arg[u] # NoKey
       /\ result' = [result EXCEPT
                       ![t] = RawGetPrimitive(raw_key_manager_, arg[u])]
  /\ get_primitive_calls' =
       [get_primitive_calls EXCEPT ![t] = get_primitive_calls[t] + 1]
  /\ pc' = [pc EXCEPT ![t] = "Create_39"]
  /\ UNCHANGED <<raw_key_manager_, op, arg, name_or, ret, prev>>

\* lines 37-38: the name resolved, ask the raw key manager
CreateGetPrimitive(t) ==
  /\ pc[t] = "Create_34"
  /\ IsOk(name_or[t].status)
  /\ result' = [result EXCEPT ![t] = RawGetPrimitive(raw_key_manager_, arg[t])]
  /\ get_primitive_calls' =
       [get_primitive_calls EXCEPT ![t] = get_primitive_calls[t] + 1]
  /\ pc' = [pc EXCEPT ![t] = "Create_39"]
  /\ UNCHANGED <<raw_key_manager_, op, arg, name_or, ret, prev>>

\* a failed GetPrimitive answered with a verifier around a null primitive
CreateResultErrorIgnored(t) ==
  /\ pc[t] = "Create_39"
  /\ ~IsOk(result[t].status)
  /\ ret' = [ret EXCEPT ![t] = StatusOrValue(
               JwtPublicKeyVerifyImpl([public_key |-> NoKey],
                                      ValueOrDie(name_or[t])))]
  /\ pc' = [pc EXCEPT ![t] = "done"]
  /\ UNCHANGED <<raw_key_manager_, op, arg, name_or, result,
                 get_primitive_calls, prev>>

\* a failed GetPrimitive answered with an error of the manager's own
CreateResultErrorWrapped(t) ==
  /\ pc[t] = "Create_39"
  /\ ~IsOk(result[t].status)
  /\ ret' = [ret EXCEPT ![t] = StatusOrError(
               Status("INVALID_ARGUMENT", "could not create primitive"))]
  /\ pc' = [pc EXCEPT ![t] = "done"]
  /\ UNCHANGED <<raw_key_manager_, op, arg, name_or, result,
                 get_primitive_calls, prev>>

\* lines 39-41: the raw key manager failed
CreateResultError(t) ==
  /\ pc[t] = "Create_39"
  /\ ~IsOk(result[t].status)
  /\ ret' = [ret EXCEPT ![t] = StatusOrError(result[t].status)]
  /\ pc' = [pc EXCEPT ![t] = "done"]
  /\ UNCHANGED <<raw_key_manager_, op, arg, name_or, result,
                 get_primitive_calls, prev>>

\* a verifier always bound to the first name of the switch
CreateReturnFixedName(t) ==
  /\ pc[t] = "Create_39"
  /\ IsOk(result[t].status)
  /\ ret' = [ret EXCEPT ![t] = StatusOrValue(
               JwtPublicKeyVerifyImpl(ValueOrDie(result[t]), "ES256"))]
  /\ pc' = [pc EXCEPT ![t] = "done"]
  /\ UNCHANGED <<raw_key_manager_, op, arg, name_or, result,
                 get_primitive_calls, prev>>

\* lines 42-45: bind the primitive and the name
CreateReturn(t) ==
  /\ pc[t] = "Create_39"
  /\ IsOk(result[t].status)
  /\ ret' = [ret EXCEPT ![t] = StatusOrValue(
               JwtPublicKeyVerifyImpl(ValueOrDie(result[t]),
                                      ValueOrDie(name_or[t])))]
  /\ pc' = [pc EXCEPT ![t] = "done"]
  /\ UNCHANGED <<raw_key_manager_, op, arg, name_or, result,
                 get_primitive_calls, prev>>

----------------------------------------------------------------------------
\* The delegating operations; each is a single call of the raw key manager.

\* what t's previous call returned if it was ValidateKey of the same key
PrevValidate(t, key) ==
  IF pc[t] = "done" /\ op[t] = "ValidateKey" /\ arg[t] = key
    THEN <<ret[t]>> ELSE None

Returns(t, operation, key, value) ==
  /\ pc' = [pc EXCEPT ![t] = "done"]
  /\ op' = [op EXCEPT ![t] = operation]
  /\ arg' = [arg EXCEPT ![t] = key]
  /\ name_or' = [name_or EXCEPT ![t] = None]
  /\ result' = [result EXCEPT ![t] = None]
  /\ ret' = [ret EXCEPT ![t] = value]
  /\ get_primitive_calls' = [get_primitive_calls EXCEPT ![t] = 0]
  /\ UNCHANGED raw_key_manager_

\* a ValidateKey that also resolves the algorithm name
ValidateKeyWithName(t, key) ==
  /\ Callable(t)
  /\ prev' = [prev EXCEPT ![t] = PrevValidate(t, key)]
  /\ Returns(t, "ValidateKey", key,
             IF IsOk(AlgorithmName(key.algorithm).status)
               THEN RawValidateKey(raw_key_manager_, key)
               ELSE AlgorithmName(key.algorithm).status)

\* a ValidateKey that refuses the key it validated last
ValidateKeyOnce(t, key) ==
  /\ Callable(t)
  /\ prev' = [prev EXCEPT ![t] = PrevValidate(t, key)]
  /\ Returns(t, "ValidateKey", key,
             IF PrevValidate(t, key) # None
               THEN Status("ALREADY_EXISTS", "key already validated")
               ELSE RawValidateKey(raw_key_manager_, key))

\* lines 61-64
ValidateKey(t, key) ==
  /\ Callable(t)
  /\ prev' = [prev EXCEPT ![t] = PrevValidate(t, key)]
  /\ Returns(t, "ValidateKey", key, RawValidateKey(raw_key_manager_, key))

\* lines 48-50
get_version(t) ==
  /\ Callable(t)
  /\ prev' = [prev EXCEPT ![t] = None]
  /\ Returns(t, "get_version", NoKey, RawVersion)

\* lines 52-55
key_material_type(t) ==
  /\ Callable(t)
  /\ prev' = [prev EXCEPT ![t] = None]
  /\ Returns(t, "key_material_type", NoKey, RawKeyMaterialType)

\* lines 57-59
get_key_type(t) ==
  /\ Callable(t)
  /\ prev' = [prev EXCEPT ![t] = None]
  /\ Returns(t, "get_key_type", NoKey, RawKeyType)

----------------------------------------------------------------------------
Next ==
  \E t \in Threads :
    \/ \E key \in JwtEcdsaPublicKey : CreateAlgorithmName(t, key)
    \/ CreateNameError(t)
    \/ CreateGetPrimitive(t)
    \/ CreateResultError(t)
    \/ CreateReturn(t)
    \/ \E key \in JwtEcdsaPublicKey : ValidateKey(t, key)
    \/ get_version(t)
    \/ key_material_type(t)
    \/ get_key_type(t)

Spec == Init /\ [][Next]_vars

----------------------------------------------------------------------------
\* What one call returns when it runs with no other call in progress.
RunAlone(operation, key) ==
  CASE operation = "Create" ->
         IF ~IsOk(AlgorithmName(key.algorithm).status)
           THEN StatusOrError(AlgorithmName(key.algorithm).status)
           ELSE IF ~IsOk(RawGetPrimitive(raw_key_manager_, key).status)
             THEN StatusOrError(RawGetPrimitive(raw_key_manager_, key).status)
             ELSE StatusOrValue(JwtPublicKeyVerifyImpl(
                    ValueOrDie(RawGetPrimitive(raw_key_manager_, key)),
                    ValueOrDie(AlgorithmName(key.algorithm))))
    [] operation = "ValidateKey" -> RawValidateKey(raw_key_manager_, key)
    [] operation = "get_version" -> RawVersion
    [] operation = "key_material_type" -> RawKeyMaterialType
    [] operation = "get_key_type" -> RawKeyType

KnownAlgorithms == {ES256, ES384, ES512}

InCreate(t) == op[t] = "Create"

CreateDone(t) == op[t] = "Create" /\ pc[t] = "done"

ValidateDone(t) == op[t] = "ValidateKey" /\ pc[t] = "done"

\* C1: for ES256, ES384 and ES512 AlgorithmName returns OK with exactly the
\* string "ES256", "ES384", "ES512" respectively, never an error.
C1_KnownAlgorithmNames ==
  \A t \in Threads :
    InCreate(t) =>
      /\ arg[t].algorithm = ES256 =>
           IsOk(name_or[t].status) /\ name_or[t].value = <<"ES256">>
      /\ arg[t].algorithm = ES384 =>
           IsOk(name_or[t].status) /\ name_or[t].value = <<"ES384">>
      /\ arg[t].algorithm = ES512 =>
           IsOk(name_or[t].status) /\ name_or[t].value = <<"ES512">>

C1_Witness ==
  \E t, u \in Threads :
    /\ InCreate(t) /\ arg[t].algorithm = ES384
    /\ name_or[t].value = <<"ES384">>
    /\ InCreate(u) /\ arg[u].algorithm = ES512
    /\ name_or[u].value = <<"ES512">>

\* C2: for every algorithm value outside {ES256, ES384, ES512}, the unknown
\* value and the unrecognized ones, AlgorithmName returns an INVALID_ARGUMENT
\* error and no name string.
C2_OtherAlgorithmsInvalidArgument ==
  \A t \in Threads :
    (InCreate(t) /\ arg[t].algorithm \notin KnownAlgorithms) =>
      /\ name_or[t].status.code = "INVALID_ARGUMENT"
      /\ name_or[t].value = <<>>

C2_Witness ==
  \E t, u \in Threads :
    /\ InCreate(t) /\ arg[t].algorithm > ES512
    /\ name_or[t].status.code = "INVALID_ARGUMENT"
    /\ InCreate(u) /\ arg[u].algorithm = ES_UNKNOWN
    /\ name_or[u].value = <<>>

\* C3: Create on a key whose algorithm is not ES256, ES384 or ES512 returns
\* the INVALID_ARGUMENT error of the name resolution, and the raw key manager
\* sees no GetPrimitive call during that call, whatever it would have
\* answered for the key.
C3_UnknownAlgorithmFailsFast ==
  \A t \in Threads :
    (InCreate(t) /\ arg[t].algorithm \notin KnownAlgorithms) =>
      /\ get_primitive_calls[t] = 0
      /\ pc[t] # "Create_39"
      /\ pc[t] = "done" =>
           /\ ret[t].status.code = "INVALID_ARGUMENT"
           /\ ret[t].status = name_or[t].status
           /\ ret[t].value = <<>>

C3_Witness ==
  \E t \in Threads :
    /\ CreateDone(t)
    /\ arg[t].algorithm \notin KnownAlgorithms
    /\ raw_key_manager_.GetPrimitive[arg[t].key_bytes].code = "INTERNAL"
    /\ ret[t].status.code = "INVALID_ARGUMENT"
    /\ get_primitive_calls[t] = 0

\* C4: a Create call returns a verifier only if the name resolution
\* succeeded and the raw key manager's GetPrimitive succeeded for the key of
\* that call; with an unknown algorithm or a raw failure it returns none.
C4_AllOrNothing ==
  \A t \in Threads :
    CreateDone(t) =>
      ( ret[t].value # <<>> <=>
          /\ arg[t].algorithm \in KnownAlgorithms
          /\ IsOk(name_or[t].status)
          /\ IsOk(raw_key_manager_.GetPrimitive[arg[t].key_bytes]) )

C4_Witness ==
  \E t, u \in Threads :
    /\ CreateDone(t)
    /\ arg[t].algorithm \in KnownAlgorithms
    /\ ~IsOk(raw_key_manager_.GetPrimitive[arg[t].key_bytes])
    /\ ret[t].value = <<>>
    /\ CreateDone(u)
    /\ ret[u].value # <<>>

\* C5: when the algorithm is ES256, ES384 or ES512 and the raw key manager's
\* GetPrimitive fails with error E, Create returns exactly E, code and
\* message.
C5_RawErrorUnchanged ==
  \A t \in Threads :
    ( /\ CreateDone(t)
      /\ arg[t].algorithm \in KnownAlgorithms
      /\ ~IsOk(raw_key_manager_.GetPrimitive[arg[t].key_bytes]) ) =>
      /\ ret[t].status = raw_key_manager_.GetPrimitive[arg[t].key_bytes]
      /\ ret[t].value = <<>>

C5_Witness ==
  \E t, u \in Threads :
    /\ CreateDone(t) /\ arg[t].algorithm \in KnownAlgorithms
    /\ ret[t].status = Status("INTERNAL", "raw key manager failure")
    /\ CreateDone(u) /\ arg[u].algorithm \in KnownAlgorithms
    /\ ret[u].status = Status("INVALID_ARGUMENT", "invalid curve point")

\* C6: a verifier returned by Create is bound to the primitive the raw key
\* manager made from the key of that call and to the name of that key's
\* algorithm: "ES256" for ES256, "ES384" for ES384, "ES512" for ES512.
C6_VerifierBinding ==
  \A t \in Threads :
    (CreateDone(t) /\ IsOk(ret[t].status)) =>
      /\ ValueOrDie(ret[t]).verify = PublicKeyVerify(arg[t])
      /\ ValueOrDie(ret[t]).algorithm_name =
           ( CASE arg[t].algorithm = ES256 -> "ES256"
               [] arg[t].algorithm = ES384 -> "ES384"
               [] arg[t].algorithm = ES512 -> "ES512" )

C6_Witness ==
  \E t \in Threads :
    /\ CreateDone(t)
    /\ arg[t].algorithm = ES384
    /\ IsOk(ret[t].status)
    /\ ValueOrDie(ret[t]).algorithm_name = "ES384"
    /\ ValueOrDie(ret[t]).verify = PublicKeyVerify(arg[t])

\* C7: ValidateKey returns exactly what the raw key manager's ValidateKey
\* answers for the key and resolves no algorithm name: a key with an unknown
\* algorithm validates OK whenever the raw key manager says OK.
C7_ValidateKeyDelegates ==
  \A t \in Threads :
    ValidateDone(t) => ret[t] = raw_key_manager_.ValidateKey[arg[t].key_bytes]

C7_Witness ==
  \E t, u \in Threads :
    /\ ValidateDone(t)
    /\ arg[t].algorithm = ES_UNKNOWN
    /\ ret[t] = OkStatus
    /\ CreateDone(u)
    /\ arg[u] = arg[t]
    /\ ~IsOk(ret[u].status)

\* C8 as stated: the error of a failed AlgorithmName is
\* InvalidArgument("unknown algorithm").
C8_Original ==
  \A t \in Threads :
    (InCreate(t) /\ ~IsOk(name_or[t].status)) =>
      name_or[t].status = Status("INVALID_ARGUMENT", "unknown algorithm")

\* C8, amended: the error of a failed AlgorithmName is
\* InvalidArgument("Unknown algorithm"), with a capital U.
C8_UnknownAlgorithmMessage ==
  \A t \in Threads :
    (InCreate(t) /\ ~IsOk(name_or[t].status)) =>
      name_or[t].status = Status("INVALID_ARGUMENT", "Unknown algorithm")

C8_Witness ==
  \E t \in Threads :
    /\ InCreate(t)
    /\ arg[t].algorithm = ES_UNKNOWN
    /\ name_or[t].status.message = "Unknown algorithm"

\* C9: under every interleaving of calls from several threads on the shared
\* manager, each finished call returned what it returns when run alone on
\* the same input, and no step writes the manager's member.
C9_ConcurrentCallsIndependent ==
  /\ [](\A t \in Threads : pc[t] = "done" => ret[t] = RunAlone(op[t], arg[t]))
  /\ [][raw_key_manager_' = raw_key_manager_]_vars

C9_Witness ==
  \E t, u \in Threads :
    /\ CreateDone(t)
    /\ pc[u] = "Create_39"
    /\ arg[u] # arg[t]
    /\ arg[u].algorithm = arg[t].algorithm
    /\ IsOk(result[u].status) # IsOk(ret[t].status)

\* C10: a ValidateKey that follows a ValidateKey of the same key by the same
\* caller, whatever other callers did in between, returns the same result,
\* and a ValidateKey call leaves the manager's member unchanged.
C10_ValidateKeyIdempotent ==
  /\ [](\A t \in Threads :
          (ValidateDone(t) /\ prev[t] # None) => prev[t] = <<ret[t]>>)
  /\ [][(\E t \in Threads : op'[t] = "ValidateKey" /\ pc'[t] = "done")
          => raw_key_manager_' = raw_key_manager_]_vars

C10_Witness ==
  \E t, u \in Threads :
    /\ ValidateDone(t) /\ prev[t] # None /\ ~IsOk(ret[t])
    /\ ValidateDone(u) /\ prev[u] # None /\ IsOk(ret[u])

====
